---- MODULE Spec2Model ----
(***************************************************************************)
(* A model of the Monte Carlo Tree Search engine of src/src/mcts.rs.       *)
(*                                                                         *)
(* The engine is generic over a game (trait MctsGame).  The model runs it  *)
(* on two small families of games:                                         *)
(*   "Flat": a root with 0, 1 or 2 actions (A = 1, B = 2), each leading to *)
(*           a finished state whose outcome for player 0 is a parameter    *)
(*           (ends); the root's own outcome is a parameter too (so the     *)
(*           root can be terminal, with or without legal actions, or       *)
(*           Unfinished with no legal action); playing passes the turn or  *)
(*           not (a parameter).  Player 0 moves first.                     *)
(*   "Nim":  a heap of stones, a move takes 1 or 2, the turn passes; who   *)
(*           takes the last stone alone wins, taking the last two stones   *)
(*           at once is a Draw.                                            *)
(*                                                                         *)
(* f32 scores are modelled in fixed point, in units of 1/Scale.  The order *)
(* of the fixed-point UCT scores is the order of the f32 scores for every  *)
(* pair of siblings whose parent has played <= 14.                         *)
(***************************************************************************)
EXTENDS Integers, Sequences, FiniteSets, TLC

\* ---------------------------------------------------------------- bounds
MaxIters == 10          \* iterations a behaviour runs in total, over all search calls
MaxStones == 3          \* largest initial heap of the Nim games

\* the iteration counts the caller passes to search
SearchSizes == {0, 1, 2, 10}

\* ------------------------------------------------------------- the games
Players == {0, 1}
NoAction == 0           \* Option::None of last_action / of a node id

Flip(o) == CASE o = "Win" -> "Lose" [] o = "Lose" -> "Win" [] OTHER -> o

\* MctsGame::legal_actions
legal_actions(g) ==
    IF g.kind = "Flat"
    THEN IF g.pos = 0 THEN SubSeq(<<1, 2>>, 1, g.acts) ELSE <<>>
    ELSE IF g.pos >= 2 THEN <<1, 2>> ELSE IF g.pos = 1 THEN <<1>> ELSE <<>>

\* MctsGame::play
play(g, a) ==
    IF g.kind = "Flat"
    THEN [g EXCEPT !.pos = a, !.turn = IF g.pass THEN 1 - g.turn ELSE g.turn]
    ELSE [g EXCEPT !.pos = g.pos - a, !.last = a, !.turn = 1 - g.turn]

\* MctsGame::player
player_of(g) == g.turn

\* MctsGame::state
state(g, p) ==
    IF g.kind = "Flat"
    THEN LET o0 == IF g.pos = 0 THEN g.out ELSE g.ends[g.pos]
         IN  IF p = 0 THEN o0 ELSE Flip(o0)
    ELSE IF g.pos > 0 THEN "Unfinished"
         ELSE IF g.last = 2 THEN "Draw"
         ELSE IF p = g.turn THEN "Lose" ELSE "Win"

FlatGames ==
    { [kind |-> "Flat", out |-> o, acts |-> k, ends |-> <<oa, ob>>, pass |-> b,
       pos |-> 0, last |-> 0, turn |-> 0] :
        o \in {"Win", "Lose", "Draw", "Unfinished"}, k \in 0..2,
        oa \in {"Win", "Lose", "Draw"}, ob \in {"Win", "Lose", "Draw"}, b \in BOOLEAN }

NimGames ==
    { [kind |-> "Nim", out |-> "Unfinished", acts |-> 0, ends |-> <<"Draw", "Draw">>, pass |-> TRUE,
       pos |-> s, last |-> 0, turn |-> t] :
        s \in 1..MaxStones, t \in Players }

InitGames == FlatGames \cup NimGames

\* -------------------------------------------------------------- MctsNode
\* a node that is born with one recorded draw
new_visited(game, last_action, parent) ==
    [ game |-> game, last_action |-> last_action, actions |-> legal_actions(game),
      won |-> 0, lost |-> 0, drawn |-> 1, parent |-> parent, kids |-> <<>> ]

\* MctsNode::new, with the tree links of ego_tree (parent, children in creation order)
new(game, last_action, parent) ==
    [ game |-> game, last_action |-> last_action, actions |-> legal_actions(game),
      won |-> 0, lost |-> 0, drawn |-> 0, parent |-> parent, kids |-> <<>> ]

\* MctsNode::played
played(n) == n.won + n.lost + n.drawn

Scale == 10000          \* one f32 unit
NaN == -1               \* 0.0 / 0.0
NEG_INFINITY == -2

\* the f32 comparison a > b
FGt(a, b) == a # NaN /\ b # NaN /\ a # NEG_INFINITY /\ (b = NEG_INFINITY \/ a > b)

\* score with the rate taken over played instead of 2 * played
score_single(n, p) ==
    IF played(n) = 0 THEN NaN
    ELSE LET s == ((2 * n.won + n.drawn) * Scale) \div played(n)
         IN  IF p = player_of(n.game) THEN s ELSE Scale - s

\* MctsNode::score
score(n, p) ==
    IF played(n) = 0 THEN NaN
    ELSE LET s == ((2 * n.won + n.drawn) * Scale) \div (2 * played(n))
         IN  IF p = player_of(n.game) THEN s ELSE Scale - s

\* f32::ln, times Scale
LnS == << 0, 6931, 10986, 13863, 16094, 17918, 19459, 20794,
          21972, 23026, 23979, 24849, 25649, 26391, 27081, 27726 >>

RECURSIVE SqrtSearch(_, _, _)
SqrtSearch(x, lo, hi) ==
    IF lo = hi THEN lo
    ELSE LET mid == (lo + hi + 1) \div 2
         IN  IF mid * mid <= x THEN SqrtSearch(x, mid, hi) ELSE SqrtSearch(x, lo, mid - 1)

\* f32::sqrt, on integers
ISqrt(x) == SqrtSearch(x, 0, 46340)

\* ------------------------------------------------------------------ Mcts
VARIABLES
    tree,        \* Mcts.tree: the arena of nodes, node id = index, root = 1
    player,      \* Mcts.player: the searching player
    pc,          \* where the caller / search is
    remaining,   \* iterations the running search call still has to do
    node_id,     \* select_leaf's cursor, then the selected leaf
    new_leaf,    \* search's new_leaf
    simGame,     \* simulate's throwaway copy of the game
    simState,    \* the state simulate returned
    ret,         \* what best_action returned, if it was called since the last search call
    fault,       \* the panic that ended the program, or "none"
    rng,         \* the choice of an index the last step made, if it made one
    done,        \* history: iterations completed since construction
    callN,       \* history: the argument of the last search call
    callBase,    \* history: root.played when the last search call began
    simlog       \* history: per node, the rollouts simulated from it, by outcome for player 0

vars == << tree, player, pc, remaining, node_id, new_leaf, simGame, simState,
           ret, fault, rng, done, callN, callBase, simlog >>

Root == 1
NoGame == [kind |-> "None", out |-> "Draw", acts |-> 0, ends |-> <<"Draw", "Draw">>, pass |-> FALSE,
           pos |-> 0, last |-> 0, turn |-> 0]
NoRet == [kind |-> "none", action |-> NoAction, score |-> 0]
NoLog == [Win |-> 0, Lose |-> 0, Draw |-> 0]
NoRng == [used |-> FALSE, len |-> -1]

\* Mcts::new
Init ==
    \E g \in InitGames :
        /\ tree = << new(g, NoAction, 0) >>
        /\ player = player_of(g)
        /\ pc = "idle"
        /\ remaining = 0
        /\ node_id = 0
        /\ new_leaf = 0
        /\ simGame = NoGame
        /\ simState = "Unfinished"
        /\ ret = NoRet
        /\ fault = "none"
        /\ rng = NoRng
        /\ done = 0
        /\ callN = 0
        /\ callBase = 0
        /\ simlog = << NoLog >>

\* is_leaf with && for ||
is_leaf_and(t, id) ==
    IF state(t[id].game, player_of(t[id].game)) = "Unfinished"
    THEN t[id].kids = <<>> /\ t[id].actions # <<>>
    ELSE TRUE

\* Mcts::is_leaf
is_leaf(t, id) ==
    IF state(t[id].game, player_of(t[id].game)) = "Unfinished"
    THEN t[id].kids = <<>> \/ t[id].actions # <<>>
    ELSE TRUE

\* selection_score with an exploration constant of 1
selection_score_unit(t, id, p) ==
    LET node == t[id]
        parent == t[node.parent]
        v == score(node, p)
    IN  IF played(node) = 0 \/ played(parent) = 0 THEN NaN
        ELSE v + ISqrt((LnS[played(parent)] * Scale) \div played(node))

\* Mcts::selection_score
selection_score(t, id, p) ==
    LET node == t[id]
        parent == t[node.parent]
        v == score(node, p)
    IN  IF played(node) = 0 \/ played(parent) = 0 THEN NaN
        ELSE v + ISqrt((2 * LnS[played(parent)] * Scale) \div played(node))

\* the inner loop of Mcts::select_leaf: the scan of the children of one node
RECURSIVE SelectScan(_, _, _, _, _, _)
SelectScan(t, kids, i, p, best_score, best_child_id) ==
    IF i > Len(kids) THEN best_child_id
    ELSE LET sc == selection_score(t, kids[i], p)
         IN  IF FGt(sc, best_score)
             THEN SelectScan(t, kids, i + 1, p, sc, kids[i])
             ELSE SelectScan(t, kids, i + 1, p, best_score, best_child_id)

best_uct_child(t, id, p) == SelectScan(t, t[id].kids, 1, p, NEG_INFINITY, NoAction)

\* swap_remove that drops the last element whatever the index
swap_remove_pop(s, index) ==
    LET n == Len(s)
    IN  [ j \in 1..(n - 1) |-> s[j] ]

\* Vec::swap_remove, index from 0
swap_remove(s, index) ==
    LET n == Len(s)
    IN  [ j \in 1..(n - 1) |-> IF j = index + 1 THEN s[n] ELSE s[j] ]

\* the indices rand::random::<usize>() % len can give, or 0 without randomness when len = 1
Indices(len) == IF len = 1 THEN {0} ELSE 0..(len - 1)

\* what the choice of an index among len does to the randomness source: it is left
\* alone when len = 1 and consulted otherwise (before the remainder is taken)
IndexChoice(len) == [used |-> len # 1, len |-> len]

\* expand that appends the new child twice
expand_twice(t, leaf, index) ==
    LET action == t[leaf].actions[index + 1]
        game == play(t[leaf].game, action)
        t2 == [t EXCEPT ![leaf].actions = swap_remove(@, index),
                        ![leaf].kids = Append(@, Len(t) + 1)]
    IN  Append(Append(t2, new(game, action, leaf)), new(game, action, leaf))

\* expand that wraps the leaf's game without playing the action on it
expand_unplayed(t, leaf, index) ==
    LET action == t[leaf].actions[index + 1]
    IN  Append([t EXCEPT ![leaf].actions = swap_remove(@, index),
                         ![leaf].kids = Append(@, Len(t) + 1)],
               new(t[leaf].game, action, leaf))

\* Mcts::expand on a leaf with untried actions, index being the one chosen: the tree
\* with the action removed from the leaf and the child appended (its id is Len(t) + 1)
expand(t, leaf, index) ==
    LET action == t[leaf].actions[index + 1]
        game == play(t[leaf].game, action)
    IN  Append([t EXCEPT ![leaf].actions = swap_remove(@, index),
                         ![leaf].kids = Append(@, Len(t) + 1)],
               new(game, action, leaf))

\* Mcts::win / lose / draw
win(t, id) == [t EXCEPT ![id].won = @ + 1]
lose(t, id) == [t EXCEPT ![id].lost = @ + 1]
draw(t, id) == [t EXCEPT ![id].drawn = @ + 1]

\* the match of back_propagate with the arms of Lose and Draw exchanged
bump_swapped(t, id, st) ==
    CASE st = "Win" -> win(t, id)
      [] st = "Lose" -> draw(t, id)
      [] OTHER -> lose(t, id)

\* the function back_propagate picks for a state, applied to a node
bump(t, id, st) ==
    CASE st = "Win" -> win(t, id)
      [] st = "Lose" -> lose(t, id)
      [] OTHER -> draw(t, id)

\* back_propagate that stops below the root
RECURSIVE back_propagate_below_root(_, _, _)
back_propagate_below_root(t, leaf, st) ==
    IF t[leaf].parent = 0 THEN t
    ELSE back_propagate_below_root(bump(t, leaf, st), t[leaf].parent, st)

\* back_propagate that turns the state around at every level
RECURSIVE back_propagate_negamax(_, _, _)
back_propagate_negamax(t, leaf, st) ==
    LET t2 == bump(t, leaf, st)
    IN  IF t[leaf].parent = 0 THEN t2 ELSE back_propagate_negamax(t2, t[leaf].parent, Flip(st))

\* back_propagate that starts at the parent of the simulated node
RECURSIVE back_propagate_from_parent(_, _, _)
back_propagate_from_parent(t, leaf, st) ==
    IF t[leaf].parent = 0 THEN t
    ELSE LET t2 == bump(t, t[leaf].parent, st)
         IN  back_propagate_from_parent(t2, t[leaf].parent, st)

\* Mcts::back_propagate, for a state other than Unfinished
RECURSIVE back_propagate(_, _, _)
back_propagate(t, leaf, st) ==
    LET t2 == bump(t, leaf, st)
    IN  IF t[leaf].parent = 0 THEN t2 ELSE back_propagate(t2, t[leaf].parent, st)

\* the scan of best_action with score >= best_score
RECURSIVE BestScan_last(_, _, _, _, _, _)
BestScan_last(t, kids, i, p, best_score, best_child) ==
    IF i > Len(kids) THEN best_child
    ELSE LET sc == score(t[kids[i]], p)
         IN  IF sc # NaN /\ ~ FGt(best_score, sc)
             THEN BestScan_last(t, kids, i + 1, p, sc, kids[i])
             ELSE BestScan_last(t, kids, i + 1, p, best_score, best_child)

\* the scan of Mcts::best_action over the root's children
RECURSIVE BestScan(_, _, _, _, _, _)
BestScan(t, kids, i, p, best_score, best_child) ==
    IF i > Len(kids) THEN best_child
    ELSE LET sc == score(t[kids[i]], p)
         IN  IF FGt(sc, best_score)
             THEN BestScan(t, kids, i + 1, p, sc, kids[i])
             ELSE BestScan(t, kids, i + 1, p, best_score, best_child)

\* best_action that returns a default when the root has no child
best_action_default(t, p) ==
    LET best_child == BestScan(t, t[Root].kids, 1, p, NEG_INFINITY, NoAction)
    IN  IF best_child = NoAction
        THEN [kind |-> "ok", action |-> NoAction, score |-> 0]
        ELSE [kind |-> "ok", action |-> t[best_child].last_action, score |-> score(t[best_child], p)]

\* Mcts::best_action
best_action(t, p) ==
    LET best_child == BestScan(t, t[Root].kids, 1, p, NEG_INFINITY, NoAction)
    IN  IF best_child = NoAction
        THEN [kind |-> "fault", action |-> NoAction, score |-> 0]
        ELSE [kind |-> "ok", action |-> t[best_child].last_action, score |-> score(t[best_child], p)]

\* ---------------------------------------------------------------- actions
Die(why) ==
    /\ fault' = why
    /\ pc' = "fault"

\* Mcts::search is called with n iterations
SearchCall(n) ==
    /\ pc = "idle"
    /\ rng' = NoRng
    /\ done + n <= MaxIters
    /\ pc' = "loop"
    /\ remaining' = n
    /\ callN' = n
    /\ callBase' = played(tree[Root])
    /\ ret' = NoRet
    /\ UNCHANGED << tree, player, node_id, new_leaf, simGame, simState, fault, done, simlog >>

\* the for loop of Mcts::search starts an iteration: select_leaf starts at the root
IterBegin ==
    /\ pc = "loop"
    /\ rng' = NoRng
    /\ remaining > 0
    /\ pc' = "select"
    /\ node_id' = Root
    /\ UNCHANGED << tree, player, remaining, new_leaf, simGame, simState, ret, fault,
                    done, callN, callBase, simlog >>

\* search returning with one iteration still to do
SearchReturn_early ==
    /\ pc = "loop"
    /\ rng' = NoRng
    /\ remaining <= 1
    /\ pc' = "idle"
    /\ UNCHANGED << tree, player, remaining, node_id, new_leaf, simGame, simState, ret, fault,
                    done, callN, callBase, simlog >>

\* the for loop of Mcts::search is exhausted: search returns
SearchReturn ==
    /\ pc = "loop"
    /\ rng' = NoRng
    /\ remaining = 0
    /\ pc' = "idle"
    /\ UNCHANGED << tree, player, remaining, node_id, new_leaf, simGame, simState, ret, fault,
                    done, callN, callBase, simlog >>

\* one turn of the while loop of Mcts::select_leaf
SelectStep ==
    /\ pc = "select"
    /\ rng' = NoRng
    /\ ~ is_leaf(tree, node_id)
    /\ LET best == best_uct_child(tree, node_id, player)
       IN  IF best = NoAction
           THEN Die("select_leaf: unwrap on None") /\ UNCHANGED node_id
           ELSE node_id' = best /\ UNCHANGED << pc, fault >>
    /\ UNCHANGED << tree, player, remaining, new_leaf, simGame, simState, ret,
                    done, callN, callBase, simlog >>

\* Mcts::select_leaf returns node_id
SelectDone ==
    /\ pc = "select"
    /\ rng' = NoRng
    /\ is_leaf(tree, node_id)
    /\ pc' = "expand"
    /\ UNCHANGED << tree, player, remaining, node_id, new_leaf, simGame, simState, ret, fault,
                    done, callN, callBase, simlog >>

\* Mcts::expand(leaf).unwrap_or(leaf), and the clone simulate starts from
Expand ==
    /\ pc = "expand"
    /\ LET actions == tree[node_id].actions
           len == Len(actions)
       IN  IF len = 0
           THEN /\ new_leaf' = node_id
                /\ simGame' = tree[node_id].game
                /\ rng' = NoRng
                /\ UNCHANGED << tree, simlog >>
           ELSE \E index \in Indices(len) :
                    /\ rng' = IndexChoice(len)
                    /\ tree' = expand(tree, node_id, index)
                    /\ simlog' = [k \in 1..Len(tree') |-> IF k <= Len(simlog) THEN simlog[k] ELSE NoLog]
                    /\ new_leaf' = Len(tree) + 1
                    /\ simGame' = tree'[Len(tree) + 1].game
    /\ pc' = "simulate"
    /\ UNCHANGED << player, remaining, node_id, simState, ret, fault, done, callN, callBase >>

\* a rollout that plays on the game of the simulated node itself, without the clone
SimStep_inplace ==
    /\ pc = "simulate"
    /\ state(simGame, player) = "Unfinished"
    /\ LET actions == legal_actions(simGame)
           len == Len(actions)
       IN  /\ rng' = IndexChoice(len)
           /\ IF len = 0
              THEN Die("simulate: remainder by zero") /\ UNCHANGED << simGame, tree >>
              ELSE /\ \E index \in Indices(len) : simGame' = play(simGame, actions[index + 1])
                   /\ tree' = [tree EXCEPT ![new_leaf].game = simGame']
                   /\ UNCHANGED << pc, fault >>
    /\ UNCHANGED << player, remaining, node_id, new_leaf, simState, ret,
                    done, callN, callBase, simlog >>

\* one turn of the loop of Mcts::simulate on an Unfinished state
SimStep ==
    /\ pc = "simulate"
    /\ state(simGame, player) = "Unfinished"
    /\ LET actions == legal_actions(simGame)
           len == Len(actions)
       IN  /\ rng' = IndexChoice(len)
           /\ IF len = 0
              THEN Die("simulate: remainder by zero") /\ UNCHANGED simGame
              ELSE /\ \E index \in Indices(len) : simGame' = play(simGame, actions[index + 1])
                   /\ UNCHANGED << pc, fault >>
    /\ UNCHANGED << tree, player, remaining, node_id, new_leaf, simState, ret,
                    done, callN, callBase, simlog >>

\* Mcts::simulate returns the state of a finished game
SimDone ==
    /\ pc = "simulate"
    /\ rng' = NoRng
    /\ state(simGame, player) # "Unfinished"
    /\ simState' = state(simGame, player)
    /\ pc' = "backprop"
    /\ UNCHANGED << tree, player, remaining, node_id, new_leaf, simGame, ret, fault,
                    done, callN, callBase, simlog >>

\* Mcts::back_propagate(new_leaf, state), and the end of the iteration
BackPropagate ==
    /\ pc = "backprop"
    /\ rng' = NoRng
    /\ IF simState = "Unfinished"
       THEN Die("back_propagate: unreachable") /\ UNCHANGED << tree, remaining, done, simlog >>
       ELSE /\ tree' = back_propagate(tree, new_leaf, simState)
            /\ simlog' = [simlog EXCEPT ![new_leaf][state(simGame, 0)] = @ + 1]
            /\ remaining' = remaining - 1
            /\ done' = done + 1
            /\ pc' = "loop"
            /\ UNCHANGED fault
    /\ UNCHANGED << player, node_id, new_leaf, simGame, simState, ret, callN, callBase >>

\* Mcts::best_action is called
BestAction ==
    /\ pc = "idle"
    /\ rng' = NoRng
    /\ LET r == best_action(tree, player)
       IN  /\ ret' = r
           /\ IF r.kind = "fault" THEN Die("best_action: unwrap on None") ELSE UNCHANGED << pc, fault >>
    /\ UNCHANGED << tree, player, remaining, node_id, new_leaf, simGame, simState,
                    done, callN, callBase, simlog >>

Next ==
    \/ \E n \in SearchSizes : SearchCall(n)
    \/ IterBegin
    \/ SearchReturn
    \/ SelectStep
    \/ SelectDone
    \/ Expand
    \/ SimStep
    \/ SimDone
    \/ BackPropagate
    \/ BestAction

Spec == Init /\ [][Next]_vars

\* the steps search takes by itself once called; the calls are the caller's
Internal ==
    \/ IterBegin
    \/ SearchReturn
    \/ SelectStep
    \/ SelectDone
    \/ Expand
    \/ SimStep
    \/ SimDone
    \/ BackPropagate

\* the games of the fair runs: the heaps below the largest one, moving first,
\* and the two-action games whose turn passes; the graph of fair runs is
\* searched for cycles, which the largest heap makes too long a search
LiveGames ==
    { g \in NimGames : g.pos < MaxStones /\ g.turn = 0 }
        \cup { g \in FlatGames : g.ends = << "Win", "Lose" >> /\ g.pass }

InitLive == Init /\ tree[Root].game \in LiveGames

\* search is synchronous: once called it runs on until it returns or panics
FairSpec == InitLive /\ [][Next]_vars /\ WF_vars(Internal)

TypeOK ==
    /\ pc \in {"idle", "loop", "select", "expand", "simulate", "backprop", "fault"}
    /\ player \in Players
    /\ remaining \in 0..MaxIters
    /\ Len(simlog) = Len(tree)
    /\ (fault = "none") = (pc # "fault")

\* ------------------------------------------------- history and vocabulary
Nodes == 1..Len(tree)
RootGame == tree[Root].game
RootKids == tree[Root].kids
AtRest == pc \in {"idle", "loop"}

\* the nodes back_propagate visits from id: id and its ancestors, up to the root
RECURSIVE PathToRoot(_, _)
PathToRoot(t, id) == IF t[id].parent = 0 THEN {id} ELSE {id} \cup PathToRoot(t, t[id].parent)

\* the completed rollouts, with outcome o for player 0, whose path went through node id
RECURSIVE ThroughUpTo(_, _, _)
ThroughUpTo(id, o, k) ==
    IF k = 0 THEN 0
    ELSE ThroughUpTo(id, o, k - 1) + (IF id \in PathToRoot(tree, k) THEN simlog[k][o] ELSE 0)

Through(id, o) == ThroughUpTo(id, o, Len(tree))
ThroughAll(id) == Through(id, "Win") + Through(id, "Lose") + Through(id, "Draw")

\* the outcome, for player 0, that player p sees as o
SeenBy(p, o) == IF p = 0 THEN o ELSE Flip(o)

\* every rollout of the game reaches a finished state
RECURSIVE RolloutsEnd(_)
RolloutsEnd(g) ==
    /\ state(g, 0) = "Unfinished" => legal_actions(g) # <<>>
    /\ \A i \in 1..Len(legal_actions(g)) : RolloutsEnd(play(g, legal_actions(g)[i]))

\* the game is well formed: a state has no legal action exactly when it is finished
RECURSIVE WellFormed(_)
WellFormed(g) ==
    /\ (state(g, 0) # "Unfinished") = (legal_actions(g) = <<>>)
    /\ \A i \in 1..Len(legal_actions(g)) : WellFormed(play(g, legal_actions(g)[i]))

\* a single-ply game: two root actions, A an immediate Win and B an immediate Loss for the searching player
WinLoseGame(g) ==
    g.kind = "Flat" /\ g.out = "Unfinished" /\ g.acts = 2 /\ g.ends = <<"Win", "Lose">>

\* ------------------------------------------------------------------ claims

\* C1: in a single-ply game with root actions A (immediate Win for the searching
\* player) and B (immediate Loss), whether or not playing passes the turn, after
\* new(game); search(10) best_action returns (A, 1.0).
C1_SinglePlyBestAction ==
    (WinLoseGame(RootGame) /\ callBase = 0 /\ callN = 10 /\ done = 10 /\ ret.kind # "none")
        => ret = [kind |-> "ok", action |-> 1, score |-> Scale]

\* r is the (last_action, value) of the first created among the root's children of maximal value
FirstMaxChild(t, p, r) ==
    \E i \in 1..Len(t[Root].kids) :
        LET c == t[t[Root].kids[i]]
        IN  /\ r.action = c.last_action
            /\ r.score = score(c, p)
            /\ \A j \in 1..Len(t[Root].kids) : score(t[t[Root].kids[j]], p) <= score(c, p)
            /\ \A j \in 1..(i - 1) : score(t[t[Root].kids[j]], p) < score(c, p)

\* C2: when the root has a child, best_action returns the (last_action, value) of the
\* first created among the root's children of maximal plain value, and leaves the
\* tree as it was, so that a second call returns the same.
C2_BestActionFirstMax ==
    [][ (BestAction /\ RootKids # <<>>)
          => /\ tree' = tree
             /\ ret'.kind = "ok"
             /\ FirstMaxChild(tree, player, ret')
             /\ best_action(tree', player') = ret' ]_vars

\* best_action has returned the first of two root children of the same, maximal, value
C2_Witness ==
    /\ ret.kind = "ok"
    /\ Len(RootKids) = 2
    /\ score(tree[RootKids[1]], player) = score(tree[RootKids[2]], player)
    /\ ret.action = tree[RootKids[1]].last_action
    /\ ret.action # tree[RootKids[2]].last_action

\* C3: in a game whose rollouts all end, every node's played is the number of completed
\* iterations whose backpropagation path contained the node, played never decreases,
\* and a call search(n) raises the root's played by exactly n.
C3_VisitCounts ==
    /\ [](RolloutsEnd(RootGame) =>
            /\ AtRest => \A id \in Nodes : played(tree[id]) = ThroughAll(id)
            /\ played(tree[Root]) = callBase + callN - remaining
            /\ pc = "idle" => played(tree[Root]) = callBase + callN)
    /\ [][\A id \in Nodes : played(tree'[id]) >= played(tree[id])]_vars

\* a second search call has returned, and a node two levels below the root was visited twice
C3_Witness ==
    /\ pc = "idle" /\ RolloutsEnd(RootGame)
    /\ callBase > 0 /\ callN > 0
    /\ played(tree[Root]) = callBase + callN
    /\ \E id \in Nodes : /\ tree[id].parent \notin {0, Root}
                         /\ played(tree[id]) >= 2

\* C4: best_action ends in a fault exactly when the root has no children, which is the
\* case before the first iteration and always when the root state has no legal action;
\* with a child at the root it returns normally.
C4_BestActionFault ==
    /\ []((legal_actions(RootGame) = <<>> \/ (pc = "idle" /\ done = 0)) => RootKids = <<>>)
    /\ [][BestAction => /\ (ret'.kind = "fault") = (RootKids = <<>>)
                        /\ (ret'.kind = "ok") = (RootKids # <<>>)
                        /\ (fault' # "none") = (RootKids = <<>>)]_vars

\* best_action has faulted after a search on a root that is a Draw with no legal action
C4_Witness ==
    /\ fault = "best_action: unwrap on None" /\ ret.kind = "fault"
    /\ done > 0
    /\ state(RootGame, player) = "Draw" /\ legal_actions(RootGame) = <<>>
    /\ RootKids = <<>>

\* C5: for every initial state that is already terminal, new(state); search(1) does not
\* fault and produces no child of the root: the tree is the root alone, with played = 1.
C5_TerminalRoot ==
    (state(RootGame, player) # "Unfinished" /\ callBase = 0 /\ callN = 1 /\ ret.kind = "none")
        => /\ fault = "none"
           /\ Len(tree) = 1
           /\ pc = "idle" => played(tree[Root]) = 1

\* C6: for every node with played > 0 and every player, the value lies in [0, 1]
\* (0 <= 2*won + drawn <= 2*played), and so does the score best_action returns.
C6_ScoreBounds ==
    /\ \A id \in Nodes :
          played(tree[id]) > 0 =>
              /\ 0 <= 2 * tree[id].won + tree[id].drawn
              /\ 2 * tree[id].won + tree[id].drawn <= 2 * played(tree[id])
              /\ \A p \in Players : score(tree[id], p) \in 0..Scale
    /\ ret.kind = "ok" => ret.score \in 0..Scale

\* best_action has returned a score strictly between 0 and 1, and a node has won, lost and drawn rollouts
C6_Witness ==
    /\ ret.kind = "ok" /\ ret.score > 0 /\ ret.score < Scale
    /\ \E id \in Nodes : tree[id].won > 0 /\ tree[id].lost > 0 /\ tree[id].drawn > 0

\* the raw rate (2*won + drawn) / (2*played) of a node
Raw(n) == ((2 * n.won + n.drawn) * Scale) \div (2 * played(n))

\* C7: for a non-root node with played > 0, value(node, p) is the raw rate when p is the
\* player to move at the node's parent (who played last_action), and 1 - raw for any other
\* player.  Stated of the well-formed games, where it fails already.
C7_ValuePerspective ==
    WellFormed(RootGame) => \A id \in Nodes :
        (tree[id].parent # 0 /\ played(tree[id]) > 0) =>
            \A p \in Players :
                score(tree[id], p) = IF p = player_of(tree[tree[id].parent].game)
                                     THEN Raw(tree[id])
                                     ELSE Scale - Raw(tree[id])

\* node id's counters are the completed rollouts through it, as player m sees their outcome
CountersSeenBy(id, m) ==
    /\ tree[id].won = Through(id, SeenBy(m, "Win"))
    /\ tree[id].lost = Through(id, SeenBy(m, "Lose"))
    /\ tree[id].drawn = Through(id, "Draw")

\* C8 as stated: a non-root node's won, lost and drawn count the rollouts through it as
\* seen by the player to move at the node's parent.
C8_CountersOfParentMover ==
    AtRest => \A id \in Nodes :
                 tree[id].parent # 0 => CountersSeenBy(id, player_of(tree[tree[id].parent].game))

\* C8, amended: every node's won, lost and drawn count the rollouts through it as seen
\* by the searching player, whoever moves at the node's parent.
C8_CountersOfSearcher ==
    AtRest => \A id \in Nodes : CountersSeenBy(id, player)

\* the other player moves at the parent of id
BelowOpponent(id) == tree[id].parent # 0 /\ player_of(tree[tree[id].parent].game) # player

\* of the nodes below a node where the other player moves, one has won rollouts and one has lost rollouts
C8_Witness ==
    /\ AtRest
    /\ \E id \in Nodes : BelowOpponent(id) /\ tree[id].won > 0
    /\ \E id \in Nodes : BelowOpponent(id) /\ tree[id].lost > 0

\* C9 as stated: every iteration adds exactly one node, so the tree has 1 + (iterations
\* completed) nodes.
C9_OneNodePerIteration ==
    AtRest => Len(tree) = 1 + done

\* C9, amended: an iteration adds one node when the selected leaf has untried actions and
\* none otherwise, so the tree has at most 1 + (iterations completed) nodes; nodes are
\* only added by expand, and a node once created stays, with its game, action and parent.
C9_AtMostOneNodePerIteration ==
    /\ [](AtRest => (Len(tree) >= 1 /\ Len(tree) <= 1 + done))
    /\ [][Expand => Len(tree') = Len(tree) + (IF tree[node_id].actions # <<>> THEN 1 ELSE 0)]_vars
    /\ [][Len(tree') # Len(tree) => pc = "expand"]_vars
    /\ [][\A id \in Nodes : /\ id <= Len(tree')
                            /\ tree'[id].game = tree[id].game
                            /\ tree'[id].last_action = tree[id].last_action
                            /\ tree'[id].parent = tree[id].parent]_vars

\* iterations have added nodes, and later iterations have completed without adding one
C9_Witness ==
    /\ AtRest
    /\ Len(tree) > 1
    /\ Len(tree) < 1 + done

\* C10: when the selected leaf's state is Unfinished but has no legal action, simulation
\* is not entered for that state and the iteration does not fault.
C10_StuckLeafNotSimulated ==
    /\ ~ (/\ pc = "simulate"
          /\ state(simGame, player) = "Unfinished"
          /\ legal_actions(simGame) = <<>>)
    /\ fault # "simulate: remainder by zero"

\* the counters of a node
Counters(n) == << n.won, n.lost, n.drawn >>

\* the counters of n with the one that matches state st one higher
CountersPlus(n, st) ==
    << n.won + (IF st = "Win" THEN 1 ELSE 0),
       n.lost + (IF st = "Lose" THEN 1 ELSE 0),
       n.drawn + (IF st = "Draw" THEN 1 ELSE 0) >>

\* C11: backpropagation runs with the outcome of the rollout for the searching player,
\* never with Unfinished, and raises by exactly 1 the one counter that matches it (the
\* same at every level) on the simulated node and on each of its ancestors up to the
\* root, and no other counter.
C11_BackPropagation ==
    /\ [](pc = "backprop" => (simState # "Unfinished" /\ simState = state(simGame, player)))
    /\ [][BackPropagate =>
            /\ fault' = "none"
            /\ \A id \in Nodes :
                  Counters(tree'[id]) = IF id \in PathToRoot(tree, new_leaf)
                                        THEN CountersPlus(tree[id], simState)
                                        ELSE Counters(tree[id])]_vars

\* a Win rollout and a Lose rollout have been propagated from nodes two levels below the root
C11_Witness ==
    /\ pc = "loop" /\ done > 0
    /\ tree[new_leaf].parent \notin {0, Root}
    /\ simState = "Lose" /\ tree[new_leaf].lost > 0
    /\ tree[Root].won > 0 /\ tree[Root].lost > 0

\* C12: select_leaf moves from a node into a child only when the node's game is Unfinished
\* for its mover, the node has a child and no untried action; the node it returns is
\* terminal, or childless, or has untried actions.
C12_Selection ==
    /\ [][(pc = "select" /\ node_id' # node_id) =>
            /\ state(tree[node_id].game, player_of(tree[node_id].game)) = "Unfinished"
            /\ tree[node_id].kids # <<>>
            /\ tree[node_id].actions = <<>>
            /\ tree[node_id'].parent = node_id]_vars
    /\ [](pc = "expand" =>
            \/ state(tree[node_id].game, player_of(tree[node_id].game)) # "Unfinished"
            \/ tree[node_id].kids = <<>>
            \/ tree[node_id].actions # <<>>)

\* select_leaf has gone down from the root and returned a node that has children and untried actions
C12_Witness ==
    /\ pc = "expand"
    /\ node_id # Root
    /\ tree[node_id].kids # <<>> /\ tree[node_id].actions # <<>>

\* C13: every node scored during the selection descent has played >= 1, and so has its
\* parent; a node has played = 0 only from its creation in expand to the backpropagation
\* of the same iteration, or it is the root before the first completed iteration.
C13_NoZeroVisitScoring ==
    /\ (pc = "select" /\ ~ is_leaf(tree, node_id)) =>
          /\ played(tree[node_id]) >= 1
          /\ \A i \in 1..Len(tree[node_id].kids) :
                /\ played(tree[tree[node_id].kids[i]]) >= 1
                /\ selection_score(tree, tree[node_id].kids[i], player) # NaN
    /\ \A id \in Nodes :
          played(tree[id]) = 0 =>
              \/ id = Root /\ done = 0
              \/ id # Root /\ id = new_leaf /\ id = Len(tree) /\ pc \in {"simulate", "backprop"}

\* the children of a node below the root are being scored, the root having two children
C13_Witness ==
    /\ pc = "select" /\ ~ is_leaf(tree, node_id)
    /\ node_id # Root
    /\ Len(tree[node_id].kids) >= 1
    /\ Len(tree[Root].kids) >= 2

\* the elements of a sequence
SetOf(s) == { s[i] : i \in 1..Len(s) }

\* the last_action values of the children of node id
KidActions(id) == { tree[tree[id].kids[i]].last_action : i \in 1..Len(tree[id].kids) }

\* C14: a node's untried actions are among the legal actions of its game and never gain
\* an element; an expansion removes exactly one action from the selected leaf's untried
\* actions and appends exactly one child, whose last_action is that action; the
\* last_action values of a node's children and its untried actions are disjoint and are
\* together the node's legal actions, and no two children share a last_action.
C14_UntriedActions ==
    /\ [](\A id \in Nodes :
            /\ SetOf(tree[id].actions) \subseteq SetOf(legal_actions(tree[id].game))
            /\ SetOf(tree[id].actions) \cap KidActions(id) = {}
            /\ SetOf(tree[id].actions) \cup KidActions(id) = SetOf(legal_actions(tree[id].game))
            /\ Cardinality(KidActions(id)) = Len(tree[id].kids)
            /\ Cardinality(SetOf(tree[id].actions)) = Len(tree[id].actions))
    /\ [][\A id \in Nodes : SetOf(tree'[id].actions) \subseteq SetOf(tree[id].actions)]_vars
    /\ [][(Expand /\ tree[node_id].actions # <<>>) =>
            /\ Len(tree'[node_id].actions) = Len(tree[node_id].actions) - 1
            /\ Len(tree') = Len(tree) + 1
            /\ tree'[node_id].kids = Append(tree[node_id].kids, Len(tree'))
            /\ tree'[Len(tree')].parent = node_id
            /\ SetOf(tree[node_id].actions) \ SetOf(tree'[node_id].actions)
                  = { tree'[Len(tree')].last_action }]_vars

\* a node has a child for its first action and its second action still untried, another
\* has a child for each of its two actions
C14_Witness ==
    /\ \E id \in Nodes : /\ Len(legal_actions(tree[id].game)) = 2
                         /\ KidActions(id) = { legal_actions(tree[id].game)[1] }
                         /\ tree[id].actions = << legal_actions(tree[id].game)[2] >>
    /\ \E id \in Nodes : Len(tree[id].kids) = 2 /\ tree[id].actions = <<>>

\* the game reached from the root's game by the last_action values on the path to node id
RECURSIVE Replay(_)
Replay(id) ==
    IF tree[id].parent = 0 THEN tree[Root].game
    ELSE play(Replay(tree[id].parent), tree[id].last_action)

\* C15: the root is the only node without a last_action, every node's game is the
\* initial game with the last_action values on the path from the root applied in order,
\* and the searching player stays the mover of the initial state.
C15_PathConsistency ==
    /\ [](/\ \A id \in Nodes : /\ (tree[id].last_action = NoAction) = (id = Root)
                               /\ (tree[id].parent = 0) = (id = Root)
                               /\ tree[id].game = Replay(id)
          /\ tree[Root].game \in InitGames
          /\ player = player_of(tree[Root].game))
    /\ [][tree'[Root].game = tree[Root].game /\ player' = player]_vars

\* the tree has a node two levels below the root, reached by two different actions
C15_Witness ==
    \E id \in Nodes :
        /\ tree[id].parent \notin {0, Root}
        /\ tree[id].last_action # tree[tree[id].parent].last_action
        /\ tree[id].game = play(play(tree[Root].game, tree[tree[id].parent].last_action),
                                tree[id].last_action)

\* search is running
InSearch == pc \in {"loop", "select", "expand", "simulate", "backprop"}

\* the order of the phases
PhaseOrder ==
    { <<"idle", "loop">>, <<"loop", "select">>, <<"loop", "idle">>, <<"select", "expand">>,
      <<"expand", "simulate">>, <<"simulate", "backprop">>, <<"backprop", "loop">>,
      <<"idle", "fault">> }

\* C16: in a game whose every line of play ends and whose states without a legal action
\* are finished, search(n) does exactly n iterations, each one Select, Expand, Simulate,
\* Backpropagate in that order and to the end, and then returns; search(0) changes nothing.
C16_IterationProtocol ==
    /\ [](RolloutsEnd(RootGame) => fault \in {"none", "best_action: unwrap on None"})
    /\ [][(RolloutsEnd(RootGame) /\ pc' # pc) => << pc, pc' >> \in PhaseOrder]_vars
    /\ [][(InSearch /\ RolloutsEnd(RootGame)) =>
             /\ done' + remaining' = done + remaining
             /\ done' # done => (pc = "backprop" /\ done' = done + 1)]_vars
    /\ [][(pc = "idle" /\ pc' = "loop") => (remaining' = callN' /\ done' = done /\ tree' = tree)]_vars
    /\ [](pc = "idle" => remaining = 0)
    /\ [][(pc = "loop" /\ callN = 0) => (pc' = "idle" /\ tree' = tree /\ player' = player)]_vars
    /\ (InSearch /\ RolloutsEnd(RootGame)) ~> (pc = "idle")

\* a later call search(2) has run its two iterations and returned
C16_Witness ==
    /\ pc = "idle" /\ RolloutsEnd(RootGame)
    /\ callN = 2 /\ callBase > 0
    /\ done = callBase + 2
    /\ remaining = 0
    /\ Len(tree) > 3

\* C17: when expansion finds exactly one untried action, or a simulation step exactly one
\* legal action, the action is chosen without the randomness source; the source is
\* consulted only when there are two or more choices.
C17_SingleActionDeterminism ==
    rng # NoRng => /\ rng.len = 1 => ~ rng.used
                   /\ rng.used => rng.len >= 2

\* C18: simulation works on a copy and changes nothing in the tree; over every step of an
\* iteration no node disappears, the game, last_action and parent of every existing node
\* are unchanged, the untried actions and the children of a node change only when
\* expansion acts on it as the selected leaf, and the counters of a node change only when
\* backpropagation runs and the node lies on the path from the simulated node to the root.
C18_Frame ==
    /\ [][pc = "simulate" => tree' = tree]_vars
    /\ [][/\ Len(tree') >= Len(tree)
          /\ \A id \in Nodes :
                /\ tree'[id].game = tree[id].game
                /\ tree'[id].last_action = tree[id].last_action
                /\ tree'[id].parent = tree[id].parent
                /\ (tree'[id].actions # tree[id].actions \/ tree'[id].kids # tree[id].kids)
                       => (pc = "expand" /\ id = node_id)
                /\ Counters(tree'[id]) # Counters(tree[id])
                       => (pc = "backprop" /\ id \in PathToRoot(tree, new_leaf))]_vars

\* a rollout has played moves on its copy after an expansion, while a node that earlier
\* rollouts went through lies off the path to the root
C18_Witness ==
    /\ pc = "backprop"
    /\ new_leaf # node_id
    /\ simGame # tree[new_leaf].game
    /\ \E id \in Nodes : id \notin PathToRoot(tree, new_leaf) /\ played(tree[id]) > 0

\* the sum of played over the first k children of node id
RECURSIVE KidsPlayedUpTo(_, _)
KidsPlayedUpTo(id, k) ==
    IF k = 0 THEN 0 ELSE KidsPlayedUpTo(id, k - 1) + played(tree[tree[id].kids[k]])

KidsPlayed(id) == KidsPlayedUpTo(id, Len(tree[id].kids))

\* the completed iterations whose rollout started at node id itself
Simulated(id) == simlog[id]["Win"] + simlog[id]["Lose"] + simlog[id]["Draw"]

\* C19: after every completed iteration, every node's played is the sum of its children's
\* played plus the number of iterations that simulated directly from it; so played is at
\* least the children's sum, a non-root node has played >= 1, and in a well-formed game an
\* unfinished root has played equal to the children's sum and an unfinished non-root node
\* has played equal to 1 plus the children's sum.
C19_VisitConservation ==
    AtRest => \A id \in Nodes :
        /\ played(tree[id]) = KidsPlayed(id) + Simulated(id)
        /\ played(tree[id]) >= KidsPlayed(id)
        /\ id # Root => played(tree[id]) >= 1
        /\ (WellFormed(RootGame) /\ state(tree[id].game, 0) = "Unfinished") =>
               played(tree[id]) = (IF id = Root THEN 0 ELSE 1) + KidsPlayed(id)

\* in a well-formed game, at rest: an unfinished node below the root has children and
\* three visits, and a finished node was simulated from more than once
C19_Witness ==
    /\ AtRest /\ WellFormed(RootGame)
    /\ played(tree[Root]) > 0 /\ state(RootGame, 0) = "Unfinished"
    /\ \E id \in Nodes : /\ id # Root /\ state(tree[id].game, 0) = "Unfinished"
                         /\ tree[id].kids # <<>> /\ played(tree[id]) >= 3
    /\ \E id \in Nodes : state(tree[id].game, 0) # "Unfinished" /\ Simulated(id) >= 2

\* value(child, searching player) + C * sqrt(ln(parent.played) / child.played) with
\* C = sqrt(2), times Scale; C is taken under the root as its square
Uct(id) ==
    score(tree[id], player)
        + ISqrt((2 * LnS[played(tree[tree[id].parent])] * Scale) \div played(tree[id]))

\* C20: at each node the selection descent passes through, the child chosen is the one
\* that maximizes value(child, searching player) + C * sqrt(ln(parent.played) / child.played)
\* with C = sqrt(2), the first created child winning ties; value is the engine's value
\* function, whose perspective is the matter of C7.
C20_UctSelection ==
    [][SelectStep =>
         LET kids == tree[node_id].kids
         IN  /\ fault' = "none"
             /\ \A j \in 1..Len(kids) : played(tree[kids[j]]) > 0
             /\ \E i \in 1..Len(kids) :
                   /\ node_id' = kids[i]
                   /\ \A j \in 1..Len(kids) : Uct(kids[j]) <= Uct(kids[i])
                   /\ \A j \in 1..(i - 1) : Uct(kids[j]) < Uct(kids[i])]_vars

\* the descent stands at a child it chose although an earlier created sibling has the
\* higher plain value: the exploration term decided
C20_Witness ==
    /\ pc = "select" /\ node_id # Root
    /\ LET kids == tree[tree[node_id].parent].kids
       IN  /\ Len(kids) = 2 /\ node_id = kids[2]
           /\ score(tree[kids[1]], player) > score(tree[node_id], player)
           /\ Uct(node_id) > Uct(kids[1])
====
